---- MODULE Spec2Model ----
(***************************************************************************)
(* Verification model of the Mandelbrot viewer's interactive camera        *)
(* controller (src/src/interactive/camera_controller.rs).                  *)
(*                                                                         *)
(* Floating-point values (f64 / f32) are modelled as exact rationals       *)
(* <<numerator, denominator>> in lowest terms with a positive denominator. *)
(* A step whose result would need a numerator or denominator above MaxNum  *)
(* is outside the model's number range and is not taken.                   *)
(***************************************************************************)
EXTENDS Integers, Sequences, FiniteSets, TLC

\* ------------------------------------------------------------------ bounds
\* number of window events delivered to the controller in one behaviour
MaxEvents == 3
\* largest numerator / denominator magnitude of a modelled float
MaxNum == 200000

\* ------------------------------------------------- rational arithmetic
Abs(x) == IF x < 0 THEN -x ELSE x

RECURSIVE GCD(_, _)
GCD(a, b) == IF b = 0 THEN a ELSE GCD(b, a % b)

\* marker of a value outside the model's number range
NaR == <<0, 0>>

\* the rational n/d in lowest terms (d # 0)
R(n, d) ==
    LET g == GCD(Abs(n), Abs(d))
    IN  IF n = 0 THEN <<0, 1>>
        ELSE IF d < 0 THEN <<(0 - n) \div g, (0 - d) \div g>>
        ELSE <<n \div g, d \div g>>

ProdFits(a, b) == a = 0 \/ b = 0 \/ Abs(a) <= MaxNum \div Abs(b)

Fits(x) == x # NaR /\ Abs(x[1]) <= MaxNum /\ x[2] <= MaxNum

\* f64 multiplication a * b
Mul(a, b) ==
    IF a = NaR \/ b = NaR THEN NaR
    ELSE IF a[1] = 0 \/ b[1] = 0 THEN <<0, 1>>
    ELSE LET g1 == GCD(Abs(a[1]), b[2])
             g2 == GCD(Abs(b[1]), a[2])
             n1 == a[1] \div g1
             n2 == b[1] \div g2
             d1 == a[2] \div g2
             d2 == b[2] \div g1
         IN  IF ProdFits(n1, n2) /\ ProdFits(d1, d2)
             THEN <<n1 * n2, d1 * d2>>
             ELSE NaR

\* f64 negation -a
Neg(a) == IF a = NaR THEN NaR ELSE <<0 - a[1], a[2]>>

\* f64 addition a + b
Add(a, b) ==
    IF a = NaR \/ b = NaR THEN NaR
    ELSE LET g  == GCD(a[2], b[2])
             m1 == b[2] \div g
             m2 == a[2] \div g
         IN  IF ProdFits(a[1], m1) /\ ProdFits(b[1], m2) /\ ProdFits(a[2], m1)
             THEN R(a[1] * m1 + b[1] * m2, a[2] * m1)
             ELSE NaR

\* f64 subtraction a - b
Sub(a, b) == Add(a, Neg(b))

\* f64 division of two window / pixel integers, n / d with d # 0
Div(n, d) == R(n, d)

\* f64 comparisons against in-range values
Less(a, b) == a[1] * b[2] < b[1] * a[2]
GreaterEq(a, b) == ~Less(a, b)
Greater(a, b) == Less(b, a)

Zero == <<0, 1>>
One == <<1, 1>>
Two == <<2, 1>>
Five == <<5, 1>>

\* ------------------------------------------------------------ inputs
\* VirtualKeyCode values delivered by the window system ("F11" stands for
\* any key code the controller has no arm for)
KeyCodes == {"H", "Left", "J", "Down", "K", "Up", "L", "Right",
             "A", "PageUp", "S", "PageDown", "Space", "F11"}
ElementStates == {"Pressed", "Released"}
MouseButtons == {"Left", "Right"}
\* window size in pixels (width, height) at construction
InitialSize == <<8, 4>>
\* window sizes in pixels (width, height) of Resized events
WindowSizes == {<<4, 4>>, <<8, 4>>}
\* pointer pixel coordinates of CursorMoved events
PixelXs == {2, 6}
PixelYs == {1, 3}
\* TouchpadMagnify deltas
MagnifyDeltas == {R(-3, 2), R(-1, 1), R(-11999, 12000), R(-1, 2),
                  R(-1, 50), R(1, 50), R(19, 6)}
\* MouseScrollDelta::LineDelta y values and PixelDelta y values
LineDeltas == {R(-1, 1), R(1, 1), R(10, 1)}
PixelDeltas == {R(-20, 1), R(20, 1)}

\* ------------------------------------------------------------- state
VARIABLES
    window_size,            \* CameraController.window_size
    properties,             \* CameraController.properties (center, zoom, aspect, math64)
    mouse_position,         \* CameraController.mouse_position (normalized)
    is_mouse_left_pressed,  \* CameraController.is_mouse_left_pressed
    event,                  \* the call made last (window event or resize)
    changed,                \* value returned by the last process_events call
    nevents,                \* number of calls made so far
    result32,               \* value returned by properties32, if it was the last call
    variant,                \* the program that runs: "interactive", "lib" or "main"
    is_up_pressed,          \* CameraController hold flags of the simple variants
    is_down_pressed,
    is_left_pressed,
    is_right_pressed,
    is_zoom_in_pressed,
    is_zoom_out_pressed,
    f11_state_prev,         \* run (lib.rs): state of the previous F11 event
    esc_state_prev,         \* run (lib.rs): state of the previous Escape event
    fullscreen,             \* window.fullscreen() != None
    config,                 \* run: surface configuration (width, height)
    aspect,                 \* run (main.rs): aspect
    properties_buffer,      \* contents of the uniform buffer of the view-state
    aspect_buffer,          \* contents of the aspect buffer (main.rs)
    control_flow,           \* *control_flow of the event loop
    redraw_requested,       \* window.request_redraw() is pending
    frame,                  \* frames presented so far and the uniforms of the last
    held_keys               \* the keys the user holds down (the keyboard's state)

\* the fields of the simple variants' CameraController beyond the shared ones
holdVars == <<is_up_pressed, is_down_pressed, is_left_pressed,
              is_right_pressed, is_zoom_in_pressed, is_zoom_out_pressed>>

\* the state of run's event loop
hostVars == <<variant, holdVars, f11_state_prev, esc_state_prev, fullscreen,
              config, aspect, properties_buffer, aspect_buffer, control_flow,
              redraw_requested, frame, held_keys>>

vars == <<window_size, properties, mouse_position, is_mouse_left_pressed,
          event, changed, nevents, result32, hostVars>>

\* CameraController.speed, as passed by the host (pan speed 0.02)
speed == R(1, 50)

\* Properties::default()
Default ==
    [center |-> <<R(-3, 4), Zero>>,
     zoom   |-> R(6, 5),
     aspect |-> One,
     math64 |-> 0]

\* every float of the view-state and the pointer lies in the number range
InRange(p, m) ==
    /\ Fits(p.center[1]) /\ Fits(p.center[2])
    /\ Fits(p.zoom) /\ Fits(p.aspect)
    /\ Fits(m[1]) /\ Fits(m[2])

NoEvent ==
    [type |-> "None", key |-> "", state |-> "", button |-> "",
     unit |-> "", delta |-> Zero, position |-> <<0, 0>>]

\* an f32 is <<m, e>>, the value m * 2^e with 2^23 <= |m| < 2^24, or <<0, 0>>
NoResult32 ==
    [center |-> <<<<0, 0>>, <<0, 0>>>>, zoom |-> <<0, 0>>,
     aspect |-> Zero, math64 |-> 0]

NoFrame == [n |-> 0, center |-> <<Zero, Zero>>, zoom |-> Zero, aspect |-> Zero]

\* the interactive controller on its own: no event loop of src/ runs it
HostIdle ==
    /\ variant = "interactive"
    /\ is_up_pressed = FALSE
    /\ is_down_pressed = FALSE
    /\ is_left_pressed = FALSE
    /\ is_right_pressed = FALSE
    /\ is_zoom_in_pressed = FALSE
    /\ is_zoom_out_pressed = FALSE
    /\ f11_state_prev = "Released"
    /\ esc_state_prev = "Released"
    /\ fullscreen = FALSE
    /\ config = InitialSize
    /\ aspect = Zero
    /\ properties_buffer = NoFrame
    /\ aspect_buffer = Zero
    /\ control_flow = "Poll"
    /\ redraw_requested = FALSE
    /\ frame = NoFrame
    /\ held_keys = {}

\* CameraController::new(speed, width, height)
Init ==
    /\ HostIdle
    /\ window_size = InitialSize
    /\ properties = Default
    /\ mouse_position = <<Zero, Zero>>
    /\ is_mouse_left_pressed = FALSE
    /\ event = NoEvent
    /\ changed = FALSE
    /\ nevents = 0
    /\ result32 = NoResult32

\* ------------------------------------------------------- controller
\* mutant: the center is assigned (=) instead of moved (+=)
move_center_assign(p, delta) ==
    [p EXCEPT !.center = <<delta[1], delta[2]>>]

\* CameraController::move_center
move_center(p, delta) ==
    [p EXCEPT !.center = <<Add(p.center[1], delta[1]),
                           Add(p.center[2], delta[2])>>]

\* 1.0 / 10_000.0, the zoom below which 64-bit arithmetic is required
Math64Threshold == Div(1, 10000)

\* mutant: the ceiling test is strict (zoom > 5.0)
zoom_rejected_strict(p, delta) ==
    Greater(delta, Zero) /\ Greater(p.zoom, Five)

\* CameraController::zoom, the early return: a zoom-out at or above the ceiling
zoom_rejected(p, delta) ==
    Greater(delta, Zero) /\ GreaterEq(p.zoom, Five)

\* mutant: the pan uses the zoom as it was before the update
zoom_pan_old_zoom(center, factor, old_zoom, new_zoom) ==
    <<Mul(Mul(center[1], Sub(One, factor)), old_zoom),
      Mul(Mul(center[2], Sub(One, factor)), old_zoom)>>

\* CameraController::zoom, the argument of move_center (new_zoom is the
\* already updated self.properties.zoom)
zoom_pan(center, factor, old_zoom, new_zoom) ==
    <<Mul(Mul(center[1], Sub(One, factor)), new_zoom),
      Mul(Mul(center[2], Sub(One, factor)), new_zoom)>>

\* mutant: the threshold test is not strict (zoom <= 1/10000)
zoom_math64_inclusive(z) ==
    IF ~Less(Math64Threshold, z) THEN 1 ELSE 0

\* CameraController::zoom, the math64 assignment
zoom_math64(z) ==
    IF Less(z, Math64Threshold) THEN 1 ELSE 0

\* CameraController::zoom; yields the new properties and the return value
zoom(p, center, delta) ==
    IF zoom_rejected(p, delta)
    THEN [properties |-> p, ret |-> FALSE]
    ELSE LET factor == Add(One, delta)
             z      == Mul(p.zoom, factor)
             p1     == [p EXCEPT !.zoom = z]
             p2     == move_center(p1, zoom_pan(center, factor, p.zoom, z))
             p3     == [p2 EXCEPT !.math64 = zoom_math64(z)]
         IN  [properties |-> p3, ret |-> TRUE]

\* the call counter and the record of the call
Step(ev) ==
    /\ nevents < MaxEvents
    /\ nevents' = nevents + 1
    /\ event' = ev
    /\ result32' = NoResult32
    /\ variant = "interactive"
    /\ UNCHANGED hostVars

PanKeys == {"H", "Left", "J", "Down", "K", "Up", "L", "Right"}
ZoomKeys == {"A", "PageUp", "S", "PageDown"}

\* mutant: H/Left and L/Right are swapped
key_pan_swapped(keycode, p) ==
    LET sz == Mul(speed, p.zoom)
    IN  CASE keycode \in {"H", "Left"}  -> <<sz, Zero>>
          [] keycode \in {"J", "Down"}  -> <<Zero, Neg(sz)>>
          [] keycode \in {"K", "Up"}    -> <<Zero, sz>>
          [] keycode \in {"L", "Right"} -> <<Neg(sz), Zero>>

\* process_events, the argument of move_center in the four pan arms
key_pan(keycode, p) ==
    LET sz == Mul(speed, p.zoom)
    IN  CASE keycode \in {"H", "Left"}  -> <<Neg(sz), Zero>>
          [] keycode \in {"J", "Down"}  -> <<Zero, Neg(sz)>>
          [] keycode \in {"K", "Up"}    -> <<Zero, sz>>
          [] keycode \in {"L", "Right"} -> <<sz, Zero>>

\* mutant: A/PageUp passes +speed and S/PageDown passes -speed
key_zoom_delta_swapped(keycode) ==
    IF keycode \in {"A", "PageUp"} THEN speed ELSE Neg(speed)

\* process_events, the delta passed to zoom in the two zoom arms
key_zoom_delta(keycode) ==
    IF keycode \in {"A", "PageUp"} THEN Neg(speed) ELSE speed

\* mutant: the reset keeps the 64-bit flag
key_reset_keeps_flag(p) == [Default EXCEPT !.math64 = p.math64]

\* process_events, the Space arm: self.properties = Default::default()
key_reset(p) == Default

\* process_events, arm WindowEvent::KeyboardInput with Some(keycode)
KeyboardInput(keycode, state) ==
    LET is_pressed == state = "Pressed"
        update     == is_pressed = TRUE
        origin     == <<Zero, Zero>>
        p == CASE keycode \in PanKeys ->
                    move_center(properties, key_pan(keycode, properties))
               [] keycode \in ZoomKeys ->
                    zoom(properties, origin, key_zoom_delta(keycode)).properties
               [] keycode = "Space" -> key_reset(properties)
               [] OTHER -> properties
    IN  /\ Step([NoEvent EXCEPT !.type = "KeyboardInput", !.key = keycode,
                                !.state = state])
        /\ InRange(p, mouse_position)
        /\ properties' = p
        /\ changed' = IF keycode \in PanKeys \cup ZoomKeys \cup {"Space"}
                      THEN update ELSE FALSE
        /\ UNCHANGED <<window_size, mouse_position, is_mouse_left_pressed>>

\* process_events, arm WindowEvent::MouseInput (only MouseButton::Left matches)
MouseInput(button, state) ==
    /\ Step([NoEvent EXCEPT !.type = "MouseInput", !.button = button,
                            !.state = state])
    /\ is_mouse_left_pressed' =
           IF button = "Left" THEN state = "Pressed" ELSE is_mouse_left_pressed
    /\ changed' = FALSE
    /\ UNCHANGED <<window_size, properties, mouse_position>>

\* mutant: the drag is not amplified by 2.0
cursor_drag_unamplified(dx, dy, z) ==
    <<Mul(Neg(dx), z), Mul(Neg(dy), z)>>

\* process_events, the argument of move_center in the CursorMoved arm
cursor_drag(dx, dy, z) ==
    <<Mul(Mul(Neg(dx), z), Two), Mul(Mul(Neg(dy), z), Two)>>

\* process_events, arm WindowEvent::CursorMoved
CursorMoved(position) ==
    LET width  == window_size[1]
        height == window_size[2]
        prev_position == mouse_position
        curr_position == <<Sub(Div(position[1] * 2, width), One),
                           Neg(Sub(Div(position[2] * 2, height), One))>>
        dx == Sub(curr_position[1], prev_position[1])
        dy == Sub(curr_position[2], prev_position[2])
        p  == IF is_mouse_left_pressed
              THEN move_center(properties, cursor_drag(dx, dy, properties.zoom))
              ELSE properties
    IN  /\ Step([NoEvent EXCEPT !.type = "CursorMoved", !.position = position])
        /\ InRange(p, curr_position)
        /\ mouse_position' = curr_position
        /\ properties' = p
        /\ changed' = is_mouse_left_pressed
        /\ UNCHANGED <<window_size, is_mouse_left_pressed>>

\* process_events, arm WindowEvent::TouchpadMagnify
TouchpadMagnify(delta) ==
    LET r == zoom(properties, mouse_position, delta)
    IN  /\ Step([NoEvent EXCEPT !.type = "TouchpadMagnify", !.delta = delta])
        /\ InRange(r.properties, mouse_position)
        /\ properties' = r.properties
        /\ changed' = r.ret
        /\ UNCHANGED <<window_size, mouse_position, is_mouse_left_pressed>>

\* the scroll delta scaled to a zoom delta: line * 0.11, pixel * 0.001
ScrollDelta(unit, y) ==
    IF unit = "LineDelta" THEN Mul(y, R(11, 100)) ELSE Mul(y, R(1, 1000))

\* process_events, arm WindowEvent::MouseWheel
MouseWheel(unit, y) ==
    LET delta == ScrollDelta(unit, y)
        r     == zoom(properties, mouse_position, Neg(delta))
    IN  /\ Step([NoEvent EXCEPT !.type = "MouseWheel", !.unit = unit,
                                !.delta = y])
        /\ InRange(r.properties, mouse_position)
        /\ properties' = r.properties
        /\ changed' = r.ret
        /\ UNCHANGED <<window_size, mouse_position, is_mouse_left_pressed>>

\* process_events, arm _ => false (an event the controller has no arm for)
OtherEvent ==
    /\ Step([NoEvent EXCEPT !.type = "Other"])
    /\ changed' = FALSE
    /\ UNCHANGED <<window_size, properties, mouse_position, is_mouse_left_pressed>>

\* CameraController::update_window_size
update_window_size(width, height) ==
    /\ Step([NoEvent EXCEPT !.type = "Resized", !.position = <<width, height>>])
    /\ window_size' = <<width, height>>
    /\ properties' = [properties EXCEPT !.aspect = Div(width, height)]
    /\ UNCHANGED <<mouse_position, is_mouse_left_pressed, changed>>

\* number of binary digits of q > 0
RECURSIVE BitLen(_)
BitLen(q) == IF q = 0 THEN 0 ELSE 1 + BitLen(q \div 2)

\* the number of doublings that bring r (0 < r < d) to at least d
RECURSIVE LeadShift(_, _)
LeadShift(r, d) == IF r >= d THEN 0 ELSE 1 + LeadShift(2 * r, d)

\* m extended by the next k binary digits of r / d (r < d); <<digits, rest>>
RECURSIVE Bits(_, _, _, _)
Bits(m, r, d, k) ==
    IF k = 0 THEN <<m, r>>
    ELSE IF 2 * r >= d THEN Bits(2 * m + 1, 2 * r - d, d, k - 1)
    ELSE Bits(2 * m, 2 * r, d, k - 1)

\* 2^k
RECURSIVE Pow2(_)
Pow2(k) == IF k = 0 THEN 1 ELSE 2 * Pow2(k - 1)

\* `x as f32`: the f32 nearest to x, ties to the even significand
ToF32(x) ==
    IF x[1] = 0 THEN <<0, 0>>
    ELSE LET a  == Abs(x[1])
             d  == x[2]
             sg == IF x[1] < 0 THEN -1 ELSE 1
             q  == a \div d
             k  == BitLen(q)
             s  == LeadShift(a, d)
             \* 24 significant digits and the rest of the division
             t  == IF q > 0
                   THEN Bits(q, a % d, d, 24 - k)
                   ELSE Bits(1, a * Pow2(s) - d, d, 23)
             e  == IF q > 0 THEN k - 24 ELSE 0 - s - 23
             up == 2 * t[2] > d \/ (2 * t[2] = d /\ t[1] % 2 = 1)
             m  == IF up THEN t[1] + 1 ELSE t[1]
         IN  IF m = Pow2(24) THEN <<sg * Pow2(23), e + 1>> ELSE <<sg * m, e>>

\* mutant: the 64-bit flag is copied
properties32_copies_flag(p) ==
    [center |-> <<ToF32(p.center[1]), ToF32(p.center[2])>>,
     zoom   |-> ToF32(p.zoom),
     aspect |-> p.aspect,
     math64 |-> p.math64]

\* From<Properties> for Properties32
properties32_from(p) ==
    [center |-> <<ToF32(p.center[1]), ToF32(p.center[2])>>,
     zoom   |-> ToF32(p.zoom),
     aspect |-> p.aspect,
     math64 |-> 0]

\* CameraController::properties32
properties32 ==
    /\ nevents < MaxEvents
    /\ nevents' = nevents + 1
    /\ event' = [NoEvent EXCEPT !.type = "properties32"]
    /\ result32' = properties32_from(properties)
    /\ variant = "interactive"
    /\ UNCHANGED <<window_size, properties, mouse_position,
                   is_mouse_left_pressed, changed, hostVars>>

Next ==
    \/ properties32
    \/ \E k \in KeyCodes, s \in ElementStates : KeyboardInput(k, s)
    \/ \E b \in MouseButtons, s \in ElementStates : MouseInput(b, s)
    \/ \E x \in PixelXs, y \in PixelYs : CursorMoved(<<x, y>>)
    \/ \E d \in MagnifyDeltas : TouchpadMagnify(d)
    \/ \E y \in LineDeltas : MouseWheel("LineDelta", y)
    \/ \E y \in PixelDeltas : MouseWheel("PixelDelta", y)
    \/ OtherEvent
    \/ \E sz \in WindowSizes : update_window_size(sz[1], sz[2])

Spec == Init /\ [][Next]_vars

\* ------------------------------------------- simple variants and their hosts
\* keys the host loops are fed; "Tab" stands for a key nothing is bound to
HostKeyCodes ==
    {"H", "Left", "J", "Down", "K", "Up", "L", "Right", "A", "PageUp",
     "S", "PageDown", "Space", "Tab"}

\* scroll deltas in lines fed to the simple variants
HostLineDeltas == {R(-10, 1), R(-1, 1), R(1, 1), R(10, 1)}

\* sizes the hosts' windows are resized to
HostWindowSizes == {<<4, 4>>, <<4, 8>>}

\* Properties::default() of lib.rs
lib_Default == [center |-> <<R(-3, 4), Zero>>, zoom |-> R(12, 5), aspect |-> One]

\* the properties CameraController::new of main.rs starts with
main_Initial == [center |-> <<R(-1, 4), Zero>>, zoom |-> R(12, 5)]

\* the CameraController of the running variant as one value
Controller ==
    [window_size           |-> window_size,
     properties            |-> properties,
     mouse_position        |-> mouse_position,
     is_mouse_left_pressed |-> is_mouse_left_pressed,
     is_up_pressed         |-> is_up_pressed,
     is_down_pressed       |-> is_down_pressed,
     is_left_pressed       |-> is_left_pressed,
     is_right_pressed      |-> is_right_pressed,
     is_zoom_in_pressed    |-> is_zoom_in_pressed,
     is_zoom_out_pressed   |-> is_zoom_out_pressed]

\* the controller is left as c, with every float in the number range
SetController(c) ==
    /\ Fits(c.properties.center[1]) /\ Fits(c.properties.center[2])
    /\ Fits(c.properties.zoom)
    /\ Fits(c.mouse_position[1]) /\ Fits(c.mouse_position[2])
    /\ window_size' = c.window_size
    /\ properties' = c.properties
    /\ mouse_position' = c.mouse_position
    /\ is_mouse_left_pressed' = c.is_mouse_left_pressed
    /\ is_up_pressed' = c.is_up_pressed
    /\ is_down_pressed' = c.is_down_pressed
    /\ is_left_pressed' = c.is_left_pressed
    /\ is_right_pressed' = c.is_right_pressed
    /\ is_zoom_in_pressed' = c.is_zoom_in_pressed
    /\ is_zoom_out_pressed' = c.is_zoom_out_pressed

\* mutant: the up and down keys are bound the other way round
key_flag_swapped(keycode) ==
    CASE keycode \in {"K", "Up"}       -> "is_down_pressed"
      [] keycode \in {"H", "Left"}     -> "is_left_pressed"
      [] keycode \in {"J", "Down"}     -> "is_up_pressed"
      [] keycode \in {"L", "Right"}    -> "is_right_pressed"
      [] keycode \in {"A", "PageUp"}   -> "is_zoom_in_pressed"
      [] keycode \in {"S", "PageDown"} -> "is_zoom_out_pressed"
      [] OTHER -> "none"

\* process_events of lib.rs and main.rs: the hold flag a key arm assigns
key_flag(keycode) ==
    CASE keycode \in {"K", "Up"}       -> "is_up_pressed"
      [] keycode \in {"H", "Left"}     -> "is_left_pressed"
      [] keycode \in {"J", "Down"}     -> "is_down_pressed"
      [] keycode \in {"L", "Right"}    -> "is_right_pressed"
      [] keycode \in {"A", "PageUp"}   -> "is_zoom_in_pressed"
      [] keycode \in {"S", "PageDown"} -> "is_zoom_out_pressed"
      [] OTHER -> "none"

\* mutant: the drag moves the center along the pointer delta
lib_cursor_drag_along(c, dx, dy) ==
    <<Sub(c.properties.center[1], Mul(dx, c.properties.zoom)),
      Add(c.properties.center[2], Mul(dy, c.properties.zoom))>>

\* lib.rs process_events, CursorMoved arm: the center a drag leaves
lib_cursor_drag(c, dx, dy) ==
    <<Add(c.properties.center[1], Mul(dx, c.properties.zoom)),
      Sub(c.properties.center[2], Mul(dy, c.properties.zoom))>>

\* mutant: a line delta is scaled like a pixel delta
lib_scroll_delta_pixels(unit, y) == Mul(y, R(1, 1000))

\* lib.rs process_events, MouseWheel arm: the scroll delta scaled
lib_scroll_delta(unit, y) ==
    IF unit = "LineDelta" THEN Mul(y, R(11, 100)) ELSE Mul(y, R(1, 1000))

\* lib.rs CameraController::process_events; the result is the controller it
\* leaves and the bool it returns
lib_process_events(c, ev) ==
    CASE ev.type = "KeyboardInput" ->
            LET is_pressed == ev.state = "Pressed"
                flag       == key_flag(ev.key)
            IN  IF flag # "none"
                THEN [c |-> [c EXCEPT ![flag] = is_pressed], ret |-> TRUE]
                ELSE IF ev.key = "Space"
                THEN [c |-> [c EXCEPT !.properties = lib_Default], ret |-> TRUE]
                ELSE [c |-> c, ret |-> FALSE]
      [] ev.type = "MouseInput" /\ ev.button = "Left" ->
            [c   |-> [c EXCEPT !.is_mouse_left_pressed = (ev.state = "Pressed")],
             ret |-> FALSE]
      [] ev.type = "CursorMoved" ->
            LET width  == c.window_size[1]
                height == c.window_size[2]
                nx == Neg(Sub(Mul(Div(ev.position[1], width), Two), One))
                ny == Neg(Sub(Mul(Div(ev.position[2], height), Two), One))
                dx == Sub(nx, c.mouse_position[1])
                dy == Sub(ny, c.mouse_position[2])
                moved == [c EXCEPT !.mouse_position = <<nx, ny>>]
            IN  IF c.is_mouse_left_pressed
                THEN [c   |-> [moved EXCEPT !.properties.center =
                                                lib_cursor_drag(c, dx, dy)],
                      ret |-> TRUE]
                ELSE [c |-> moved, ret |-> FALSE]
      [] ev.type = "MouseWheel" ->
            LET delta == lib_scroll_delta(ev.unit, ev.delta)
                z     == c.properties.zoom
            IN  IF Less(delta, Zero) /\ GreaterEq(z, Five)
                THEN [c |-> c, ret |-> FALSE]
                ELSE [c |-> [c EXCEPT
                         !.properties.center =
                             <<Sub(@[1], Mul(Mul(c.mouse_position[1], delta), z)),
                               Add(@[2], Mul(Mul(c.mouse_position[2], delta), z))>>,
                         !.properties.zoom = Sub(z, Mul(delta, z))],
                      ret |-> TRUE]
      [] OTHER -> [c |-> c, ret |-> FALSE]

\* mutant: the size is stored but the aspect is left alone
lib_update_window_size_keeps_aspect(c, width, height) ==
    [c EXCEPT !.window_size = <<width, height>>]

\* lib.rs CameraController::update_window_size
lib_update_window_size(c, width, height) ==
    [c EXCEPT !.window_size = <<width, height>>,
              !.properties.aspect = Div(width, height)]

\* mutant: the zoom-out step has no ceiling
lib_zoom_out_unclamped(z) == z

\* lib.rs update_camera: the ceiling applied after a zoom-out step
lib_zoom_out_clamp(z) == IF Greater(z, Five) THEN Five ELSE z

\* update_camera of lib.rs and main.rs up to the zoom-out step: the four pan
\* steps and the zoom-in step, in the order of the code
update_camera_steps(c) ==
    LET z  == c.properties.zoom
        s  == Mul(speed, z)
        y1 == IF c.is_up_pressed THEN Add(c.properties.center[2], s)
              ELSE c.properties.center[2]
        y2 == IF c.is_down_pressed THEN Sub(y1, s) ELSE y1
        x1 == IF c.is_left_pressed THEN Sub(c.properties.center[1], s)
              ELSE c.properties.center[1]
        x2 == IF c.is_right_pressed THEN Add(x1, s) ELSE x1
        z1 == IF c.is_zoom_in_pressed THEN Sub(z, s) ELSE z
    IN  [c EXCEPT !.properties.center = <<x2, y2>>, !.properties.zoom = z1]

\* lib.rs CameraController::update_camera
lib_update_camera(c) ==
    LET c1 == update_camera_steps(c)
        z1 == c1.properties.zoom
    IN  IF c.is_zoom_out_pressed
        THEN [c1 EXCEPT !.properties.zoom =
                            lib_zoom_out_clamp(Add(z1, Mul(speed, z1)))]
        ELSE c1

\* main.rs CameraController::process_events
main_process_events(c, ev) ==
    IF ev.type = "KeyboardInput" /\ key_flag(ev.key) # "none"
    THEN [c   |-> [c EXCEPT ![key_flag(ev.key)] = (ev.state = "Pressed")],
          ret |-> TRUE]
    ELSE [c |-> c, ret |-> FALSE]

\* main.rs CameraController::update_camera
main_update_camera(c) ==
    LET c1 == update_camera_steps(c)
        z1 == c1.properties.zoom
    IN  IF c.is_zoom_out_pressed
        THEN [c1 EXCEPT !.properties.zoom = Add(z1, Mul(speed, z1))]
        ELSE c1

\* run of lib.rs or main.rs up to the event loop, the window shown and its
\* first redraw pending
HostInit ==
    /\ variant \in {"lib", "main"}
    /\ window_size = InitialSize
    /\ properties = IF variant = "lib" THEN lib_Default ELSE main_Initial
    /\ mouse_position = <<Zero, Zero>>
    /\ is_mouse_left_pressed = FALSE
    /\ is_up_pressed = FALSE
    /\ is_down_pressed = FALSE
    /\ is_left_pressed = FALSE
    /\ is_right_pressed = FALSE
    /\ is_zoom_in_pressed = FALSE
    /\ is_zoom_out_pressed = FALSE
    /\ f11_state_prev = "Released"
    /\ esc_state_prev = "Released"
    /\ fullscreen = FALSE
    /\ config = InitialSize
    /\ aspect = IF variant = "main"
                THEN Div(InitialSize[1], InitialSize[2]) ELSE Zero
    /\ properties_buffer = properties
    /\ aspect_buffer = aspect
    /\ control_flow = "Poll"
    /\ redraw_requested = TRUE
    /\ frame = NoFrame
    /\ held_keys = {}
    /\ event = NoEvent
    /\ changed = FALSE
    /\ nevents = 0
    /\ result32 = NoResult32

\* the closure's first statement, *control_flow = ControlFlow::Wait; the
\* event loop keeps Exit once it is set, whatever the closure assigns
enter_callback(cf) == IF cf = "Exit" THEN "Exit" ELSE "Wait"

\* the keys held down once the keyboard has produced ev
keys_after(keys, ev) ==
    IF ev.type # "KeyboardInput" THEN keys
    ELSE IF ev.state = "Pressed" THEN keys \cup {ev.key}
    ELSE keys \ {ev.key}

\* the event loop calls the closure with ev: it does so until it has
\* delivered LoopDestroyed, also for the events it still has after Exit; a
\* key is released only after it was pressed
Deliver(v, ev) ==
    /\ variant = v
    /\ event.type # "LoopDestroyed"
    /\ nevents < MaxEvents
    /\ (ev.type = "KeyboardInput" /\ ev.state = "Released")
       => ev.key \in held_keys
    /\ nevents' = nevents + 1
    /\ event' = ev
    /\ held_keys' = keys_after(held_keys, ev)
    /\ UNCHANGED <<variant, result32>>

\* the CloseRequested arm, *control_flow = ControlFlow::Exit
close_requested(cf) == "Exit"

\* lib.rs run, arm WindowEvent::CloseRequested
LibCloseRequested ==
    /\ Deliver("lib", [NoEvent EXCEPT !.type = "CloseRequested"])
    /\ control_flow' = close_requested(enter_callback(control_flow))
    /\ UNCHANGED <<window_size, properties, mouse_position,
                   is_mouse_left_pressed, holdVars, changed, f11_state_prev,
                   esc_state_prev, fullscreen, config, aspect,
                   properties_buffer, aspect_buffer, redraw_requested, frame>>

\* lib.rs run, arm WindowEvent::Resized
LibResized(width, height) ==
    LET c == lib_update_window_size(Controller, width, height)
    IN  /\ Deliver("lib", [NoEvent EXCEPT !.type = "Resized",
                                          !.position = <<width, height>>])
        /\ control_flow' = enter_callback(control_flow)
        /\ config' = <<width, height>>
        /\ SetController(c)
        /\ properties_buffer' = c.properties
        /\ redraw_requested' = TRUE
        /\ UNCHANGED <<changed, f11_state_prev, esc_state_prev, fullscreen,
                       aspect, aspect_buffer, frame>>

\* mutant: F11 toggles on every Pressed event
f11_fullscreen_level(state, prev, fs) ==
    IF state = "Pressed" THEN ~fs ELSE fs

\* lib.rs run, F11 arm: window.fullscreen() != None after the arm
f11_fullscreen(state, prev, fs) ==
    IF state # prev /\ state = "Pressed" THEN ~fs ELSE fs

\* lib.rs run, arm KeyboardInput with VirtualKeyCode::F11
LibF11(state) ==
    /\ Deliver("lib", [NoEvent EXCEPT !.type = "KeyboardInput", !.key = "F11",
                                      !.state = state])
    /\ control_flow' = enter_callback(control_flow)
    /\ fullscreen' = f11_fullscreen(state, f11_state_prev, fullscreen)
    /\ f11_state_prev' = state
    /\ UNCHANGED <<window_size, properties, mouse_position,
                   is_mouse_left_pressed, holdVars, changed, esc_state_prev,
                   config, aspect, properties_buffer, aspect_buffer,
                   redraw_requested, frame>>

\* mutant: Escape toggles fullscreen as F11 does
esc_fullscreen_toggles(state, prev, fs) ==
    IF state # prev /\ state = "Pressed" THEN ~fs ELSE fs

\* lib.rs run, Escape arm: window.fullscreen() != None after the arm
esc_fullscreen(state, prev, fs) ==
    IF state # prev /\ state = "Pressed" /\ fs THEN FALSE ELSE fs

\* lib.rs run, arm KeyboardInput with VirtualKeyCode::Escape
LibEscape(state) ==
    /\ Deliver("lib", [NoEvent EXCEPT !.type = "KeyboardInput",
                                      !.key = "Escape", !.state = state])
    /\ control_flow' = enter_callback(control_flow)
    /\ fullscreen' = esc_fullscreen(state, esc_state_prev, fullscreen)
    /\ esc_state_prev' = state
    /\ UNCHANGED <<window_size, properties, mouse_position,
                   is_mouse_left_pressed, holdVars, changed, f11_state_prev,
                   config, aspect, properties_buffer, aspect_buffer,
                   redraw_requested, frame>>

\* lib.rs run, arm WindowEvent { event, .. }: if changed, request_redraw()
lib_redraw_if_changed(ret, pending) == IF ret THEN TRUE ELSE pending

\* lib.rs run, arm WindowEvent { event, .. }: any other window event
LibWindowEvent(ev) ==
    LET r == lib_process_events(Controller, ev)
    IN  /\ Deliver("lib", ev)
        /\ control_flow' = enter_callback(control_flow)
        /\ SetController(r.c)
        /\ changed' = r.ret
        /\ redraw_requested' = lib_redraw_if_changed(r.ret, redraw_requested)
        /\ UNCHANGED <<f11_state_prev, esc_state_prev, fullscreen, config,
                       aspect, properties_buffer, aspect_buffer, frame>>

\* mutant: the frame uploads the view-state without the aspect of the surface
lib_redraw_prepare_unsynced(c, cfg) == lib_update_camera(c)

\* lib.rs run, RedrawRequested arm: the controller whose properties the frame
\* uploads, after update_camera() and update_window_size(config)
lib_redraw_prepare(c, cfg) ==
    lib_update_window_size(lib_update_camera(c), cfg[1], cfg[2])

\* lib.rs run, arm Event::RedrawRequested
LibRedrawRequested ==
    LET c == lib_redraw_prepare(Controller, config)
    IN  /\ redraw_requested
        /\ Deliver("lib", [NoEvent EXCEPT !.type = "RedrawRequested"])
        /\ control_flow' = enter_callback(control_flow)
        /\ SetController(c)
        /\ properties_buffer' = c.properties
        /\ frame' = [n |-> frame.n + 1, center |-> c.properties.center,
                     zoom |-> c.properties.zoom, aspect |-> c.properties.aspect]
        /\ redraw_requested' = FALSE
        /\ UNCHANGED <<changed, f11_state_prev, esc_state_prev, fullscreen,
                       config, aspect, aspect_buffer>>

\* main.rs run, arm WindowEvent::CloseRequested
MainCloseRequested ==
    /\ Deliver("main", [NoEvent EXCEPT !.type = "CloseRequested"])
    /\ control_flow' = close_requested(enter_callback(control_flow))
    /\ UNCHANGED <<window_size, properties, mouse_position,
                   is_mouse_left_pressed, holdVars, changed, f11_state_prev,
                   esc_state_prev, fullscreen, config, aspect,
                   properties_buffer, aspect_buffer, redraw_requested, frame>>

\* main.rs run, arm WindowEvent::Resized
MainResized(width, height) ==
    /\ Deliver("main", [NoEvent EXCEPT !.type = "Resized",
                                       !.position = <<width, height>>])
    /\ control_flow' = enter_callback(control_flow)
    /\ config' = <<width, height>>
    /\ aspect' = Div(width, height)
    /\ aspect_buffer' = aspect'
    /\ redraw_requested' = TRUE
    /\ UNCHANGED <<window_size, properties, mouse_position,
                   is_mouse_left_pressed, holdVars, changed, f11_state_prev,
                   esc_state_prev, fullscreen, properties_buffer, frame>>

\* main.rs run, arm WindowEvent { event, .. }: the bool process_events
\* returns is dropped and request_redraw() is called
MainWindowEvent(ev) ==
    LET r == main_process_events(Controller, ev)
    IN  /\ Deliver("main", ev)
        /\ control_flow' = enter_callback(control_flow)
        /\ SetController(r.c)
        /\ changed' = r.ret
        /\ redraw_requested' = TRUE
        /\ UNCHANGED <<f11_state_prev, esc_state_prev, fullscreen, config,
                       aspect, properties_buffer, aspect_buffer, frame>>

\* main.rs run, arm Event::RedrawRequested
MainRedrawRequested ==
    LET c == main_update_camera(Controller)
    IN  /\ redraw_requested
        /\ Deliver("main", [NoEvent EXCEPT !.type = "RedrawRequested"])
        /\ control_flow' = enter_callback(control_flow)
        /\ SetController(c)
        /\ properties_buffer' = c.properties
        /\ frame' = [n |-> frame.n + 1, center |-> c.properties.center,
                     zoom |-> c.properties.zoom, aspect |-> aspect_buffer]
        /\ redraw_requested' = FALSE
        /\ UNCHANGED <<changed, f11_state_prev, esc_state_prev, fullscreen,
                       config, aspect, aspect_buffer>>

\* the loop ends: Event::LoopDestroyed reaches the arm _ => {}
LoopDestroyed ==
    /\ variant \in {"lib", "main"}
    /\ control_flow = "Exit"
    /\ event.type # "LoopDestroyed"
    /\ event' = [NoEvent EXCEPT !.type = "LoopDestroyed"]
    /\ UNCHANGED <<window_size, properties, mouse_position,
                   is_mouse_left_pressed, changed, nevents, result32, hostVars>>

\* the window events both hosts hand to process_events
DelegatedEvents ==
    {[NoEvent EXCEPT !.type = "KeyboardInput", !.key = k, !.state = s] :
         k \in HostKeyCodes, s \in ElementStates}
    \cup {[NoEvent EXCEPT !.type = "MouseInput", !.button = b, !.state = s] :
         b \in MouseButtons, s \in ElementStates}
    \cup {[NoEvent EXCEPT !.type = "CursorMoved", !.position = <<x, y>>] :
         x \in PixelXs, y \in PixelYs}
    \cup {[NoEvent EXCEPT !.type = "MouseWheel", !.unit = "LineDelta",
                          !.delta = y] : y \in HostLineDeltas}
    \cup {[NoEvent EXCEPT !.type = "MouseWheel", !.unit = "PixelDelta",
                          !.delta = y] : y \in PixelDeltas}
    \cup {[NoEvent EXCEPT !.type = "Other"]}

\* main.rs has no F11 or Escape arm: these keys are delegated as well
MainOnlyDelegated ==
    {[NoEvent EXCEPT !.type = "KeyboardInput", !.key = k, !.state = s] :
         k \in {"F11", "Escape"}, s \in ElementStates}

HostNext ==
    \/ LibCloseRequested
    \/ \E sz \in HostWindowSizes : LibResized(sz[1], sz[2])
    \/ \E s \in ElementStates : LibF11(s)
    \/ \E s \in ElementStates : LibEscape(s)
    \/ \E ev \in DelegatedEvents : LibWindowEvent(ev)
    \/ LibRedrawRequested
    \/ MainCloseRequested
    \/ \E sz \in HostWindowSizes : MainResized(sz[1], sz[2])
    \/ \E ev \in DelegatedEvents \cup MainOnlyDelegated : MainWindowEvent(ev)
    \/ MainRedrawRequested
    \/ LoopDestroyed

SpecHost == HostInit /\ [][HostNext]_vars

TypeOK ==
    /\ window_size \in WindowSizes
    /\ properties.math64 \in {0, 1}
    /\ InRange(properties, mouse_position)
    /\ is_mouse_left_pressed \in BOOLEAN
    /\ changed \in BOOLEAN
    /\ nevents \in 0..MaxEvents
\* ------------------------------------------------------------- claims
\* the event is a zoom request anchored at the pointer
IsPointerZoom(ev) == ev.type \in {"TouchpadMagnify", "MouseWheel"}

\* the delta a pointer zoom event passes to zoom: the magnify delta, or the
\* negated scaled scroll delta
ZoomDeltaOf(ev) ==
    IF ev.type = "TouchpadMagnify" THEN ev.delta
    ELSE Neg(ScrollDelta(ev.unit, ev.delta))

IsKey(ev, keys, state) ==
    ev.type = "KeyboardInput" /\ ev.key \in keys /\ ev.state = state

AtCeiling(z) == z[1] >= 5 * z[2]

\* C1: in every reachable state the view-state zoom is strictly greater
\* than 0.
C1_ZoomPositive == properties.zoom[1] > 0

\* C2: a wheel or touchpad-magnify event with zoom delta > 0 while
\* zoom >= 5.0 leaves the whole view-state as it was and returns false.
C2_ZoomOutRejectedAtCeiling ==
    [][ (IsPointerZoom(event') /\ ZoomDeltaOf(event')[1] > 0
         /\ AtCeiling(properties.zoom))
        => (properties' = properties /\ changed' = FALSE) ]_vars

\* a zoom-out request arrived at zoom = 5.0 exactly and was rejected
C2_Witness ==
    /\ IsPointerZoom(event)
    /\ ZoomDeltaOf(event)[1] > 0
    /\ properties.zoom = R(5, 1)
    /\ changed = FALSE

\* C3: in every reachable state the 64-bit flag is 1 exactly when
\* zoom < 0.0001 and 0 otherwise (so zoom = 0.0001 gives flag 0).
C3_Math64Flag ==
    properties.math64 =
        (IF properties.zoom[1] * 10000 < properties.zoom[2] THEN 1 ELSE 0)

\* a zoom event has brought zoom to 0.0001 exactly, with the flag at 0
C3_Witness ==
    /\ IsPointerZoom(event)
    /\ changed
    /\ properties.zoom = R(1, 10000)
    /\ properties.math64 = 0

\* the plane point under the normalized viewport position a
PlanePoint(p, a, i) == Add(p.center[i], Mul(a[i], p.zoom))

\* C4: a non-rejected zoom keeps the plane point under the anchor fixed:
\* center' + anchor * zoom' = center + anchor * zoom (stated for the zooms
\* that keep zoom positive, so that it does not rest on C1).
C4_AnchorFixed ==
    [][ (IsPointerZoom(event') /\ changed'
         /\ properties.zoom[1] > 0 /\ properties'.zoom[1] > 0)
        => \A i \in 1..2 :
              LET before == PlanePoint(properties, mouse_position, i)
                  after  == PlanePoint(properties', mouse_position, i)
              IN  (before # NaR /\ after # NaR) => after = before ]_vars

\* C5: a non-rejected zoom with delta d anchored at the pointer p yields
\* zoom' = zoom * (1 + d) and center' = center + p * (-d) * zoom'; from the
\* defaults, d = -0.02 at p = (0.5, 0.5) yields zoom' = 1.176 and
\* center' = (-0.73824, 0.01176).
C5_PointerZoomResult ==
    [][ (IsPointerZoom(event') /\ changed')
        => LET d == ZoomDeltaOf(event')
               p == mouse_position
           IN  /\ properties'.zoom = Mul(properties.zoom, Add(One, d))
               /\ \A i \in 1..2 :
                     properties'.center[i] =
                         Add(properties.center[i],
                             Mul(Mul(p[i], Neg(d)), properties'.zoom))
               /\ (/\ properties.center = <<R(-75, 100), Zero>>
                   /\ properties.zoom = R(12, 10)
                   /\ p = <<R(1, 2), R(1, 2)>>
                   /\ d = R(-2, 100))
                  => /\ properties'.zoom = R(1176, 1000)
                     /\ properties'.center =
                            <<R(-73824, 100000), R(1176, 100000)>> ]_vars

\* the zoom of the example has been made from the defaults
C5_Witness ==
    /\ IsPointerZoom(event)
    /\ changed
    /\ ZoomDeltaOf(event) = R(-2, 100)
    /\ mouse_position = <<R(1, 2), R(1, 2)>>
    /\ properties.zoom = R(1176, 1000)
    /\ properties.center = <<R(-73824, 100000), R(1176, 100000)>>

\* the 64-bit flag that belongs to zoom z: 1 exactly when z < 0.0001
FlagOf(z) == IF z[1] * 10000 < z[2] THEN 1 ELSE 0

\* C6: a non-rejected zoom anchored at the origin leaves center unchanged
\* and multiplies zoom by 1 + d (the 64-bit flag following the new zoom);
\* every keyboard zoom is such a zoom, wherever the pointer is.
C6_OriginZoomKeepsCenter ==
    [][ /\ (\E st \in ElementStates : IsKey(event', ZoomKeys, st))
           => \/ AtCeiling(properties.zoom) /\ properties' = properties
              \/ /\ properties'.center = properties.center
                 /\ properties'.aspect = properties.aspect
                 /\ \E d \in {speed, Neg(speed)} :
                       properties'.zoom = Mul(properties.zoom, Add(One, d))
                 /\ properties'.math64 = FlagOf(properties'.zoom)
        /\ (IsPointerZoom(event') /\ changed'
            /\ mouse_position = <<Zero, Zero>>)
           => /\ properties'.center = properties.center
              /\ properties'.aspect = properties.aspect
              /\ properties'.zoom =
                     Mul(properties.zoom, Add(One, ZoomDeltaOf(event')))
              /\ properties'.math64 = FlagOf(properties'.zoom) ]_vars

\* a keyboard zoom has acted while the pointer was away from the origin
C6_Witness ==
    /\ \E st \in ElementStates : IsKey(event, ZoomKeys, st)
    /\ mouse_position = <<R(1, 2), R(1, 2)>>
    /\ properties.center = <<R(-3, 4), Zero>>
    /\ properties.zoom = R(147, 125)

PanDirection(key) ==
    CASE key \in {"H", "Left"}  -> <<-1, 0>>
      [] key \in {"L", "Right"} -> <<1, 0>>
      [] key \in {"J", "Down"}  -> <<0, -1>>
      [] key \in {"K", "Up"}    -> <<0, 1>>

\* C8: a Pressed event of H/Left, L/Right, J/Down, K/Up changes center by
\* (-speed*zoom, 0), (+speed*zoom, 0), (0, -speed*zoom), (0, +speed*zoom),
\* leaves zoom, aspect and the 64-bit flag unchanged and reports changed;
\* at zoom = 1.2 a press of H/Left moves center.x by -0.024.
C8_PanOnPress ==
    [][ IsKey(event', PanKeys, "Pressed")
        => LET dir  == PanDirection(event'.key)
               step == Mul(R(2, 100), properties.zoom)
           IN  /\ \A i \in 1..2 :
                     properties'.center[i] =
                         Add(properties.center[i], Mul(R(dir[i], 1), step))
               /\ properties'.zoom = properties.zoom
               /\ properties'.aspect = properties.aspect
               /\ properties'.math64 = properties.math64
               /\ changed' = TRUE
               /\ (properties.zoom = R(12, 10) /\ event'.key \in {"H", "Left"})
                  => properties'.center[1] =
                         Add(properties.center[1], R(-24, 1000)) ]_vars

\* H or Left was pressed at the defaults: center.x = -0.75 - 0.024
C8_Witness ==
    /\ IsKey(event, {"H", "Left"}, "Pressed")
    /\ changed
    /\ properties.zoom = R(12, 10)
    /\ properties.center = <<R(-774, 1000), Zero>>

\* C9: a Released event of a pan key, a zoom key or Space leaves the
\* view-state unchanged and reports unchanged.
C9_ReleaseHasNoEffect ==
    [][ IsKey(event', PanKeys \cup ZoomKeys \cup {"Space"}, "Released")
        => (properties' = properties /\ changed' = FALSE) ]_vars

\* C10: after a Space press center = (-0.75, 0), zoom = 1.2, the 64-bit
\* flag is 0 and process_events has reported changed.
C10_SpaceResets ==
    IsKey(event, {"Space"}, "Pressed")
    => /\ properties.center = <<R(-75, 100), Zero>>
       /\ properties.zoom = R(12, 10)
       /\ properties.math64 = 0
       /\ changed = TRUE

\* Space was pressed after a drag had moved the center
C10_Witness ==
    /\ IsKey(event, {"Space"}, "Pressed")
    /\ nevents = 3
    /\ is_mouse_left_pressed
    /\ mouse_position = <<R(1, 2), R(1, 2)>>
    /\ properties.center = <<R(-75, 100), Zero>>

\* the normalized pointer position of the pixel position pos in a window of
\* size sz: (2 * x / width - 1, -(2 * y / height - 1))
Normalized(pos, sz) ==
    <<Sub(Div(2 * pos[1], sz[1]), One), Neg(Sub(Div(2 * pos[2], sz[2]), One))>>

\* C11: is_mouse_left_pressed holds the state of the most recent left-button
\* event (false before the first); a pointer move from P1 to P2 pans center by
\* (-(P2.x - P1.x) * zoom * 2, -(P2.y - P1.y) * zoom * 2) and reports changed
\* exactly when it is set, and otherwise leaves the view-state and reports
\* unchanged; in both cases the stored pointer position becomes P2.
C11_Drag ==
    [][ /\ is_mouse_left_pressed' =
              IF event'.type = "MouseInput" /\ event'.button = "Left"
              THEN event'.state = "Pressed"
              ELSE is_mouse_left_pressed
        /\ event'.type = "MouseInput"
           => (properties' = properties /\ changed' = FALSE)
        /\ event'.type = "CursorMoved"
           => LET P1 == mouse_position
                  P2 == Normalized(event'.position, window_size)
              IN  /\ mouse_position' = P2
                  /\ IF is_mouse_left_pressed
                     THEN /\ \A i \in 1..2 :
                                properties'.center[i] =
                                    Add(properties.center[i],
                                        Mul(Mul(Neg(Sub(P2[i], P1[i])),
                                                properties.zoom), Two))
                          /\ properties'.zoom = properties.zoom
                          /\ properties'.aspect = properties.aspect
                          /\ properties'.math64 = properties.math64
                          /\ changed' = TRUE
                     ELSE properties' = properties /\ changed' = FALSE ]_vars

\* a drag from (0, 0) to (0.5, 0.5) at the defaults: center = (-1.95, -1.2)
C11_Witness ==
    /\ event.type = "CursorMoved"
    /\ changed
    /\ is_mouse_left_pressed
    /\ mouse_position = <<R(1, 2), R(1, 2)>>
    /\ properties.center = <<R(-195, 100), R(-12, 10)>>

\* C16: new(speed, width, height) initializes center = (-0.75, 0),
\* zoom = 1.2, aspect = width / height and the 64-bit flag = false.
C16_Construction ==
    nevents = 0
    => /\ properties.center = <<R(-75, 100), Zero>>
       /\ properties.zoom = R(12, 10)
       /\ properties.aspect = Div(window_size[1], window_size[2])
       /\ properties.math64 = 0

\* C17: properties32() returns center and zoom narrowed to f32, the stored
\* aspect and a 64-bit flag of 0, and leaves the controller unchanged; the
\* defaults narrow to center (-0.75, 0) and zoom 10066330 * 2^-23, and
\* 0.0001 narrows to 13743895 * 2^-37.
C17_Properties32 ==
    [][ event'.type = "properties32"
        => /\ result32'.center = <<ToF32(properties.center[1]),
                                   ToF32(properties.center[2])>>
           /\ result32'.zoom = ToF32(properties.zoom)
           /\ result32'.aspect = properties.aspect
           /\ result32'.math64 = 0
           /\ UNCHANGED <<window_size, properties, mouse_position,
                          is_mouse_left_pressed>>
           /\ properties.center = <<R(-3, 4), Zero>>
              => result32'.center = <<<<-12582912, -24>>, <<0, 0>>>>
           /\ properties.zoom = R(6, 5)
              => result32'.zoom = <<10066330, -23>>
           /\ properties.zoom = R(1, 10000)
              => result32'.zoom = <<13743895, -37>>
           /\ properties.zoom = R(1, 20000)
              => result32'.zoom = <<13743895, -38>> ]_vars

\* properties32 was called while the 64-bit flag was 1
C17_Witness ==
    /\ event.type = "properties32"
    /\ properties.math64 = 1
    /\ properties.zoom = R(1, 20000)
    /\ result32.zoom = <<13743895, -38>>
    /\ result32.math64 = 0

\* C19: a press of the zoom-out key (S or PageDown, whose delta is +speed)
\* while zoom >= 5.0 leaves the view-state unchanged and reports unchanged.
C19_KeyZoomOutRejected ==
    [][ (IsKey(event', {"S", "PageDown"}, "Pressed")
         /\ AtCeiling(properties.zoom))
        => (properties' = properties /\ changed' = FALSE) ]_vars

\* the pointer position, normalized as (2x/w - 1, -(2y/h - 1)), that lib.rs
\* keeps as mouse_position m: it stores the x coordinate negated
LibPointer(m) == <<Neg(m[1]), m[2]>>

\* C12 as stated: in lib.rs a pointer move from P1 to P2 while the left
\* button is held changes center by ((P2.x - P1.x) * zoom, (P2.y - P1.y) * zoom).
C12_DragAsStated ==
    [][ (variant = "lib" /\ event'.type = "CursorMoved"
         /\ is_mouse_left_pressed)
        => LET P1 == LibPointer(mouse_position)
               P2 == Normalized(event'.position, window_size)
               z  == properties.zoom
           IN  properties'.center =
                   <<Add(properties.center[1], Mul(Sub(P2[1], P1[1]), z)),
                     Add(properties.center[2], Mul(Sub(P2[2], P1[2]), z))>>
      ]_vars

\* C12: in lib.rs a pointer move from P1 to P2 while the left button is held
\* changes center by the unamplified (-(P2.x - P1.x) * zoom,
\* -(P2.y - P1.y) * zoom), leaves zoom and aspect alone and reports changed;
\* with the button up the move changes no view-state and reports unchanged;
\* either way the stored pointer becomes P2.
C12_Drag ==
    [][ (variant = "lib" /\ event'.type = "CursorMoved")
        => LET P1 == LibPointer(mouse_position)
               P2 == Normalized(event'.position, window_size)
               z  == properties.zoom
           IN  /\ LibPointer(mouse_position') = P2
               /\ IF is_mouse_left_pressed
                  THEN /\ properties'.center =
                            <<Sub(properties.center[1], Mul(Sub(P2[1], P1[1]), z)),
                              Sub(properties.center[2], Mul(Sub(P2[2], P1[2]), z))>>
                       /\ properties'.zoom = properties.zoom
                       /\ properties'.aspect = properties.aspect
                       /\ changed' = TRUE
                  ELSE properties' = properties /\ changed' = FALSE
      ]_vars

\* lib.rs: the first pointer move, to pixel (6, 1) of the 8 x 4 window, that
\* is P2 = (1/2, 1/2), dragged the default view by (-1.2, -1.2)
C12_Witness ==
    /\ variant = "lib"
    /\ event.type = "CursorMoved"
    /\ changed
    /\ is_mouse_left_pressed
    /\ LibPointer(mouse_position) = <<R(1, 2), R(1, 2)>>
    /\ properties.center = <<R(-39, 20), R(-6, 5)>>

\* C13: a Resized(w, h) event leaves the stored aspect (the controller's in
\* lib.rs, run's in main.rs) at w / h, uploads it to the uniform buffer that
\* carries it and requests a redraw; the surface size changes on no other
\* event, and every frame presented has the aspect of the current surface
\* size.
C13_Resize ==
    [][ /\ (variant \in {"lib", "main"} /\ event'.type = "Resized")
           => LET w == event'.position[1]
                  h == event'.position[2]
              IN  /\ config' = <<w, h>>
                  /\ redraw_requested'
                  /\ variant = "lib"
                     => /\ properties'.aspect = Div(w, h)
                        /\ window_size' = <<w, h>>
                        /\ properties_buffer' = properties'
                  /\ variant = "main"
                     => aspect' = Div(w, h) /\ aspect_buffer' = Div(w, h)
        /\ (variant \in {"lib", "main"} /\ event'.type # "Resized")
           => config' = config
        /\ frame'.n # frame.n
           => frame'.aspect = Div(config'[1], config'[2])
      ]_vars

\* lib.rs presented a frame of aspect 1/2 after the window became 4 x 8
C13_Witness ==
    /\ variant = "lib"
    /\ event.type = "RedrawRequested"
    /\ config = <<4, 8>>
    /\ frame.n >= 1
    /\ frame.aspect = R(1, 2)
    /\ properties_buffer.aspect = R(1, 2)

\* the last event is a key event of lib.rs for key
IsLibKey(ev, key) ==
    variant = "lib" /\ ev.type = "KeyboardInput" /\ ev.key = key

\* C14: in lib.rs f11_state_prev is the state of the previous F11 event
\* (Released before the first); an F11 event toggles fullscreen exactly when
\* its state is Pressed and differs from that previous state, so a Pressed
\* F11 event following a Pressed one toggles nothing.
C14_F11EdgeTriggered ==
    [][ /\ IsLibKey(event', "F11")
           => /\ fullscreen' =
                     IF event'.state = "Pressed" /\ f11_state_prev # "Pressed"
                     THEN ~fullscreen ELSE fullscreen
              /\ f11_state_prev' = event'.state
              /\ (event'.state = "Pressed" /\ f11_state_prev = "Pressed")
                 => fullscreen' = fullscreen
        /\ (variant = "lib" /\ ~IsLibKey(event', "F11"))
           => f11_state_prev' = f11_state_prev
      ]_vars

\* a Pressed F11 event after a Released one took the window back to windowed
C14_Witness ==
    /\ IsLibKey(event, "F11")
    /\ event.state = "Pressed"
    /\ f11_state_prev = "Pressed"
    /\ ~fullscreen
    /\ nevents = 3

\* C15: in lib.rs an Escape event never turns fullscreen on; a Pressed Escape
\* event whose state differs from the previous Escape event's while the
\* window is fullscreen leaves it windowed; an Escape event while windowed
\* leaves it windowed; esc_state_prev is the state of the previous Escape
\* event.
C15_EscapeExitsFullscreen ==
    [][ /\ IsLibKey(event', "Escape")
           => /\ fullscreen' => fullscreen
              /\ (event'.state = "Pressed" /\ esc_state_prev # "Pressed"
                  /\ fullscreen) => ~fullscreen'
              /\ ~fullscreen => ~fullscreen'
              /\ esc_state_prev' = event'.state
        /\ (variant = "lib" /\ ~IsLibKey(event', "Escape"))
           => esc_state_prev' = esc_state_prev
      ]_vars

\* Escape was pressed after F11 had made the window fullscreen
C15_Witness ==
    /\ IsLibKey(event, "Escape")
    /\ event.state = "Pressed"
    /\ f11_state_prev = "Pressed"
    /\ nevents = 2
    /\ ~fullscreen

\* C18: in lib.rs and main.rs a CloseRequested event leaves the control flow
\* at Exit, and from then on the control flow stays Exit and nothing is
\* uploaded to a uniform buffer, drawn or presented.
C18_CloseTerminates ==
    [][ /\ (variant \in {"lib", "main"} /\ event'.type = "CloseRequested")
           => control_flow' = "Exit"
        /\ (variant \in {"lib", "main"} /\ control_flow = "Exit")
           => /\ control_flow' = "Exit"
              /\ properties_buffer' = properties_buffer
              /\ aspect_buffer' = aspect_buffer
              /\ frame' = frame
      ]_vars

\* the event is one the host hands to the controller's process_events
IsDelegated(ev) ==
    \/ ev.type \in {"MouseInput", "CursorMoved", "MouseWheel", "Other"}
    \/ ev.type = "KeyboardInput"
       /\ (variant = "lib" => ev.key \notin {"F11", "Escape"})

\* C20: in lib.rs and main.rs an event delegated to the controller requests
\* a redraw exactly when process_events reports changed: a redraw is pending
\* after it if and only if one was pending before or the event changed the
\* controller.
C20_RedrawIffChanged ==
    [][ (variant \in {"lib", "main"} /\ IsDelegated(event'))
        => redraw_requested' = (redraw_requested \/ changed') ]_vars

\* one of the simple variants runs
IsHost == variant \in {"lib", "main"}

\* C21: in lib.rs and main.rs, whenever a frame is drawn and presented, the
\* uniforms it is drawn with are the controller's current center and zoom and
\* the aspect width / height of the current surface configuration, and the
\* uniform buffers hold exactly these values.
C21_FrameUniforms ==
    [][ (IsHost /\ frame'.n # frame.n)
        => /\ frame'.n = frame.n + 1
           /\ frame'.center = properties'.center
           /\ frame'.zoom = properties'.zoom
           /\ frame'.aspect = Div(config'[1], config'[2])
           /\ properties_buffer'.center = properties'.center
           /\ properties_buffer'.zoom = properties'.zoom
           /\ variant = "lib"
              => properties_buffer'.aspect = Div(config'[1], config'[2])
           /\ variant = "main"
              => aspect_buffer' = Div(config'[1], config'[2])
      ]_vars

\* lib.rs drew a frame of the 8 x 4 surface with the center a held left key
\* moved: x = -0.75 - 0.02 * 2.4
C21_Witness ==
    /\ variant = "lib"
    /\ event.type = "RedrawRequested"
    /\ is_left_pressed
    /\ frame.n = 1
    /\ frame.center = <<R(-399, 500), Zero>>
    /\ frame.aspect = Two
    /\ properties_buffer = properties

\* the hold flags of the simple variants' controller
Flags ==
    [is_up_pressed       |-> is_up_pressed,
     is_down_pressed     |-> is_down_pressed,
     is_left_pressed     |-> is_left_pressed,
     is_right_pressed    |-> is_right_pressed,
     is_zoom_in_pressed  |-> is_zoom_in_pressed,
     is_zoom_out_pressed |-> is_zoom_out_pressed]

\* the keys bound to the six held actions
HoldKeys ==
    {"H", "Left", "J", "Down", "K", "Up", "L", "Right",
     "A", "PageUp", "S", "PageDown"}

\* the hold flag the specification binds to a key
HoldFlagOf(key) ==
    CASE key \in {"H", "Left"}     -> "is_left_pressed"
      [] key \in {"J", "Down"}     -> "is_down_pressed"
      [] key \in {"K", "Up"}       -> "is_up_pressed"
      [] key \in {"L", "Right"}    -> "is_right_pressed"
      [] key \in {"A", "PageUp"}   -> "is_zoom_in_pressed"
      [] key \in {"S", "PageDown"} -> "is_zoom_out_pressed"

\* C22: in the simple variants a press or release of a hold key sets only the
\* matching hold flag to the event's pressed state, reports changed and
\* leaves the view-state, the uniform buffer and the frame alone; a
\* RedrawRequested applies update_camera exactly once, keeps the flags, and
\* uploads the view-state it leaves for the frame it presents.
C22_HoldFlags ==
    [][ /\ (IsHost /\ event'.type = "KeyboardInput" /\ event'.key \in HoldKeys)
           => /\ Flags' = [Flags EXCEPT ![HoldFlagOf(event'.key)] =
                                            (event'.state = "Pressed")]
              /\ changed' = TRUE
              /\ properties' = properties
              /\ properties_buffer' = properties_buffer
              /\ frame' = frame
              /\ UNCHANGED <<window_size, mouse_position, is_mouse_left_pressed>>
        /\ (IsHost /\ event'.type = "RedrawRequested")
           => LET once == IF variant = "lib" THEN lib_update_camera(Controller)
                          ELSE main_update_camera(Controller)
              IN  /\ properties'.center = once.properties.center
                  /\ properties'.zoom = once.properties.zoom
                  /\ Flags' = Flags
                  /\ properties_buffer'.center = properties'.center
                  /\ properties_buffer'.zoom = properties'.zoom
                  /\ frame'.n = frame.n + 1
                  /\ frame'.center = properties'.center
                  /\ frame'.zoom = properties'.zoom
      ]_vars

\* main.rs: a frame after a press of the up key moved center.y by 0.02 * 2.4
C22_Witness ==
    /\ variant = "main"
    /\ event.type = "RedrawRequested"
    /\ Flags = [Flags EXCEPT !.is_up_pressed = TRUE]
    /\ is_up_pressed
    /\ properties.center = <<R(-1, 4), R(6, 125)>>
    /\ properties.zoom = R(12, 5)
    /\ frame.center = properties.center

\* s if the flag is held, else 0
Held(flag, s) == IF flag THEN s ELSE Zero

C24_LibWheel ==
    [][ (variant = "lib" /\ event'.type = "MouseWheel")
        => LET d == IF event'.unit = "LineDelta"
                    THEN Mul(event'.delta, R(11, 100))
                    ELSE Mul(event'.delta, R(1, 1000))
               p == mouse_position
               z == properties.zoom
           IN  /\ UNCHANGED <<window_size, mouse_position,
                              is_mouse_left_pressed, holdVars>>
               /\ IF Less(d, Zero) /\ GreaterEq(z, Five)
                  THEN properties' = properties /\ changed' = FALSE
                  ELSE /\ properties'.center =
                              <<Sub(properties.center[1], Mul(Mul(p[1], d), z)),
                                Add(properties.center[2], Mul(Mul(p[2], d), z))>>
                       /\ properties'.zoom = Sub(z, Mul(d, z))
                       /\ properties'.aspect = properties.aspect
                       /\ changed' = TRUE
      ]_vars

\* lib.rs: a wheel zoom-in of one line with the stored pointer at (-1/2, 1/2)
C24_Witness ==
    /\ variant = "lib"
    /\ event.type = "MouseWheel"
    /\ changed
    /\ mouse_position = <<R(-1, 2), R(1, 2)>>
    /\ properties.zoom = R(267, 125)
    /\ properties.center = <<R(-309, 500), R(33, 250)>>

\* C25: in lib.rs and main.rs the view-state zoom is strictly greater than 0
\* in every reachable state.
C25_SimpleZoomPositive == IsHost => properties.zoom[1] > 0

\* C26: in the interactive controller zoom never exceeds 5.0.
C26_ZoomAtMostFive ==
    variant = "interactive" => ~Greater(properties.zoom, Five)

\* C27: in lib.rs an update_camera call with only the zoom-out flag held
\* leaves zoom greater than or equal to its (positive) value before the call.
C27_ZoomOutNeverDecreases ==
    [][ (/\ variant = "lib"
         /\ event'.type = "RedrawRequested"
         /\ Flags = [is_up_pressed       |-> FALSE,
                     is_down_pressed     |-> FALSE,
                     is_left_pressed     |-> FALSE,
                     is_right_pressed    |-> FALSE,
                     is_zoom_in_pressed  |-> FALSE,
                     is_zoom_out_pressed |-> TRUE]
         /\ properties.zoom[1] > 0)
        => GreaterEq(properties'.zoom, properties.zoom) ]_vars

\* C28: in the simple variants every hold flag is true exactly when at least
\* one of the keys bound to its action is held down.
C28_FlagIffKeyHeld ==
    IsHost => \A f \in DOMAIN Flags :
                  Flags[f] <=> (\E k \in held_keys \cap HoldKeys : HoldFlagOf(k) = f)

\* C29: in the interactive controller a press of Space leaves the stored
\* aspect, the window size, the pointer position and the dragging flag
\* unchanged; an event that is no recognized key, left-button, pointer-move,
\* wheel or magnify event leaves the whole controller unchanged and reports
\* unchanged.
C29_FrameConditions ==
    [][ /\ (variant = "interactive" /\ IsKey(event', {"Space"}, "Pressed"))
           => /\ properties'.aspect = properties.aspect
              /\ UNCHANGED <<window_size, mouse_position, is_mouse_left_pressed>>
        /\ (/\ variant = "interactive"
            /\ \/ event'.type = "Other"
               \/ event'.type = "MouseInput" /\ event'.button # "Left"
               \/ event'.type = "KeyboardInput"
                  /\ event'.key \notin PanKeys \cup ZoomKeys \cup {"Space"})
           => /\ changed' = FALSE
              /\ UNCHANGED <<window_size, properties, mouse_position,
                             is_mouse_left_pressed>>
      ]_vars
====
